---- MODULE Spec2Model ----
(***************************************************************************)
(* Model of the SQL safety gateway of snowflake-mcp-remote (src/server.py): *)
(* snowflake_query, batch_insert and the helpers enforce_limit and          *)
(* optimize_columns.                                                        *)
(*                                                                          *)
(* Text is a sequence of one-character strings, so that strip(), upper(),  *)
(* startswith() and the substring test `k in s` are computed character by   *)
(* character, as Python computes them.                                      *)
(***************************************************************************)
EXTENDS Integers, Sequences, FiniteSets, TLC

VARIABLES
    pc,            \* per call: the position of the call in snowflake_query
    sql,           \* per call: the argument sql
    max_rows,      \* per call: the argument max_rows
    optimized_sql, \* per call: the local optimized_sql (line 168)
    conn,          \* per call: the local conn (0: not bound)
    fetched,       \* per call: the local results of fetchmany (line 182)
    result,        \* per call: the value returned, a dict
    executed,      \* per call: the texts the call passed to cursor.execute
    conns,         \* the engine's connections: id -> "open" | "closed"
    tool,          \* per call: the tool invoked
    batch,         \* per call: the arguments table, columns, values of batch_insert
    engine,        \* per call: what the engine answered (description, rowcount, exception)
    closed,        \* per call: the connection the call closed (0: none)
    fnArgs,        \* pure-function harness: the arguments drawn
    fnOut          \* pure-function harness: what has been applied so far

vars == <<pc, sql, max_rows, optimized_sql, conn, fetched, result, executed,
          conns, tool, batch, engine, closed, fnArgs, fnOut>>

gatewayVars == <<pc, sql, max_rows, optimized_sql, conn, fetched, result,
                 executed, conns, tool, batch, engine, closed>>

fnVars == <<fnArgs, fnOut>>

----------------------------------------------------------------------------
(* Bounds of the model *)

\* the longest sql text drawn, in pieces of Vocab
MaxPieces == 2
\* the rows the engine can hold for one statement
MaxAvail == 3
\* the connections the engine hands out in one run
MaxConns == 3
\* the call slots of the server
MaxCalls == 2
\* the rows given to optimize_columns in one application
MaxShapeRows == 2
\* the rows given to the builder of batch_insert in one application
MaxBatchRows == 2
\* how far beyond the truncation threshold the longest value drawn reaches
MaxOver == 100

----------------------------------------------------------------------------
(* Python str primitives, on sequences of characters *)

LowerChars == <<"a","b","c","d","e","f","g","h","i","j","k","l","m",
                "n","o","p","q","r","s","t","u","v","w","x","y","z">>

UpperChars == <<"A","B","C","D","E","F","G","H","I","J","K","L","M",
                "N","O","P","Q","R","S","T","U","V","W","X","Y","Z">>

Whitespace == {" ", "\t", "\n"}

Digits == <<"0","1","2","3","4","5","6","7","8","9">>

\* str.upper() on one character
UpperChar(ch) ==
    IF \E i \in 1..26 : LowerChars[i] = ch
    THEN UpperChars[CHOOSE i \in 1..26 : LowerChars[i] = ch]
    ELSE ch

\* s.upper()
Upper(s) == [i \in 1..Len(s) |-> UpperChar(s[i])]

\* s.strip()
Strip(s) ==
    LET keep == {i \in 1..Len(s) : s[i] \notin Whitespace}
    IN  IF keep = {} THEN <<>>
        ELSE LET lo == CHOOSE i \in keep : \A j \in keep : i <= j
                 hi == CHOOSE i \in keep : \A j \in keep : i >= j
             IN  SubSeq(s, lo, hi)

\* s.startswith(p)
StartsWith(s, p) == Len(p) <= Len(s) /\ SubSeq(s, 1, Len(p)) = p

\* p in s
Contains(s, p) ==
    \E i \in 0..(Len(s) - Len(p)) : SubSeq(s, i + 1, i + Len(p)) = p

\* str(n) of an integer, as in an f-string
RECURSIVE IntToStr(_)
IntToStr(n) ==
    IF n < 0 THEN <<"-">> \o IntToStr(0 - n)
    ELSE IF n < 10 THEN <<Digits[n + 1]>>
    ELSE IntToStr(n \div 10) \o <<Digits[(n % 10) + 1]>>

\* s.split()[0] of a text that has a first token
FirstToken(s) ==
    LET t == Strip(s)
        ws == {i \in 1..Len(t) : t[i] \in Whitespace}
    IN  IF ws = {} THEN t
        ELSE SubSeq(t, 1, (CHOOSE i \in ws : \A j \in ws : i <= j) - 1)

Range(f) == {f[i] : i \in DOMAIN f}

----------------------------------------------------------------------------
(* Keywords and literals of src/server.py *)

kSELECT   == <<"S","E","L","E","C","T">>
kSHOW     == <<"S","H","O","W">>
kDESCRIBE == <<"D","E","S","C","R","I","B","E">>
kCREATE   == <<"C","R","E","A","T","E">>
kALTER    == <<"A","L","T","E","R">>
kINSERT   == <<"I","N","S","E","R","T">>
kUPDATE   == <<"U","P","D","A","T","E">>
kDELETE   == <<"D","E","L","E","T","E">>
kMERGE    == <<"M","E","R","G","E">>
kBEGIN    == <<"B","E","G","I","N">>
kCOMMIT   == <<"C","O","M","M","I","T">>
kROLLBACK == <<"R","O","L","L","B","A","C","K">>
kDROP     == <<"D","R","O","P">>
kTRUNCATE == <<"T","R","U","N","C","A","T","E">>
kWHERE    == <<"W","H","E","R","E">>
kLIMIT    == <<"L","I","M","I","T">>
kCOUNT    == <<"C","O","U","N","T","(">>
kGROUPBY  == <<"G","R","O","U","P"," ","B","Y">>
kJSON     == <<"J","S","O","N">>
kDATA     == <<"D","A","T","A">>
kRESPONSE == <<"R","E","S","P","O","N","S","E">>
kCONTENT  == <<"C","O","N","T","E","N","T">>
kDESCRIPTION == <<"D","E","S","C","R","I","P","T","I","O","N">>

DEFAULT_MAX_ROWS == 20
MAX_ROWS_LIMIT == 1000

\* the slice bound and the length test of optimize_columns
TRUNCATE_AT == 500

allowed_starts ==
    <<kSELECT, kSHOW, kDESCRIBE, kCREATE, kALTER, kINSERT, kUPDATE, kDELETE,
      kMERGE, kBEGIN, kCOMMIT, kROLLBACK>>

extremely_dangerous == <<kDROP, kTRUNCATE>>

large_patterns == <<kJSON, kDATA, kRESPONSE, kCONTENT, kDESCRIPTION>>

\* the tuples given to startswith in the result branches
read_starts == <<kSELECT, kSHOW, kDESCRIBE>>
txn_starts  == <<kBEGIN, kCOMMIT, kROLLBACK>>

\* any(s.startswith(k) for k in ks), also s.startswith(tuple)
StartsWithAny(s, ks) == \E i \in 1..Len(ks) : StartsWith(s, ks[i])

\* any(k in s for k in ks)
ContainsAny(s, ks) == \E i \in 1..Len(ks) : Contains(s, ks[i])

----------------------------------------------------------------------------
(* enforce_limit *)

\* enforce_limit that also rewrites SHOW and DESCRIBE
enforce_limit_AllReads(s, n) ==
    LET sql_upper == Upper(Strip(s))
    IN  IF Contains(sql_upper, kLIMIT) THEN s
        ELSE IF StartsWithAny(sql_upper, read_starts)
             THEN IF Contains(sql_upper, kCOUNT) /\ ~Contains(sql_upper, kGROUPBY)
                  THEN s
                  ELSE Strip(s) \o <<" ">> \o kLIMIT \o <<" ">> \o IntToStr(n)
             ELSE s

\* enforce_limit without the test for a LIMIT already present
enforce_limit_NoLimitCheck(s, n) ==
    LET sql_upper == Upper(Strip(s))
    IN  IF StartsWith(sql_upper, kSELECT)
        THEN IF Contains(sql_upper, kCOUNT) /\ ~Contains(sql_upper, kGROUPBY)
             THEN s
             ELSE Strip(s) \o <<" ">> \o kLIMIT \o <<" ">> \o IntToStr(n)
        ELSE s

enforce_limit(s, n) ==
    LET sql_upper == Upper(Strip(s))
    IN  IF Contains(sql_upper, kLIMIT) THEN s
        ELSE IF StartsWith(sql_upper, kSELECT)
             THEN IF Contains(sql_upper, kCOUNT) /\ ~Contains(sql_upper, kGROUPBY)
                  THEN s
                  ELSE Strip(s) \o <<" ">> \o kLIMIT \o <<" ">> \o IntToStr(n)
             ELSE s

----------------------------------------------------------------------------
(* Python values held in result rows and result dicts *)

NullV == [t |-> "null", n |-> 0, s |-> <<>>]
IntV(k) == [t |-> "int", n |-> k, s |-> <<>>]
StrV(x) == [t |-> "str", n |-> 0, s |-> x]
BoolV(b) == [t |-> "bool", n |-> IF b THEN 1 ELSE 0, s |-> <<>>]

\* dict(zip(columns, row)): a later duplicate of a column name wins
DictZip(columns, row) ==
    LET n == IF Len(columns) < Len(row) THEN Len(columns) ELSE Len(row)
    IN  [c \in {columns[i] : i \in 1..n} |->
            row[CHOOSE i \in 1..n :
                    columns[i] = c /\ \A j \in 1..n : columns[j] = c => j <= i]]

\* row.get(col)
Get(row, col) == IF col \in DOMAIN row THEN row[col] ELSE NullV

----------------------------------------------------------------------------
(* optimize_columns *)

truncated_marker(n) ==
    <<".",".","."," ","[","t","r","u","n","c","a","t","e","d"," ">>
        \o IntToStr(n) \o <<" ","c","h","a","r","s","]">>

\* any(pattern in col.upper() for pattern in large_patterns)
is_large(col) == ContainsAny(Upper(col), large_patterns)

\* optimize_value that truncates from 500 characters on
optimize_value_AtThreshold(col, value) ==
    IF is_large(col) /\ value.t = "str" /\ Len(value.s) >= TRUNCATE_AT
    THEN StrV(SubSeq(value.s, 1, TRUNCATE_AT)
                \o truncated_marker(Len(value.s) - TRUNCATE_AT))
    ELSE value

optimize_value(col, value) ==
    IF is_large(col) /\ value.t = "str" /\ Len(value.s) > TRUNCATE_AT
    THEN StrV(SubSeq(value.s, 1, TRUNCATE_AT)
                \o truncated_marker(Len(value.s) - TRUNCATE_AT))
    ELSE value

optimize_columns(data, columns) ==
    IF Len(data) = 0 THEN data
    ELSE [i \in 1..Len(data) |->
            [col \in Range(columns) |-> optimize_value(col, Get(data[i], col))]]

----------------------------------------------------------------------------
(* snowflake_query, lines 118-168: the checks made before any connection *)

RangeErrorResult ==
    [success |-> FALSE, error |-> "max_rows must be between 1 and 1000",
     version |-> "V2.2"]

NotAllowedResult ==
    [success |-> FALSE, error |-> "Only SELECT, SHOW, DESCRIBE, CREATE, ALTER, INSERT, UPDATE, DELETE, MERGE, BEGIN, COMMIT, ROLLBACK operations allowed",
     version |-> "V2.2"]

DangerousResult ==
    [success |-> FALSE, error |-> "DROP/TRUNCATE not allowed for safety",
     version |-> "V2.2"]

NoWhereResult ==
    [success |-> FALSE,
     error |-> "UPDATE/DELETE requires WHERE clause for safety",
     hint |-> "Add WHERE clause to specify which rows to modify",
     version |-> "V2.2"]

\* the range check without its upper edge
RangeCheckFails_LowerOnly(n) == n < 1

\* line 120
RangeCheckFails(n) == n < 1 \/ n > MAX_ROWS_LIMIT

\* the allow-list matched anywhere in the text
NotAllowed_Substring(sql_upper) == ~ContainsAny(sql_upper, allowed_starts)

\* line 139
NotAllowed(sql_upper) == ~StartsWithAny(sql_upper, allowed_starts)

\* DROP/TRUNCATE looked for as the leading keyword only
Dangerous_LeadingOnly(sql_upper) == StartsWithAny(sql_upper, extremely_dangerous)

\* line 148
Dangerous(sql_upper) == ContainsAny(sql_upper, extremely_dangerous)

\* the WHERE rule applied to UPDATE only
MissingWhere_UpdateOnly(sql_upper) ==
    /\ ~StartsWith(sql_upper, kMERGE)
    /\ StartsWith(sql_upper, kUPDATE)
    /\ ~Contains(sql_upper, kWHERE)

\* lines 157-159
MissingWhere(sql_upper) ==
    /\ ~StartsWith(sql_upper, kMERGE)
    /\ StartsWith(sql_upper, kUPDATE) \/ StartsWith(sql_upper, kDELETE)
    /\ ~Contains(sql_upper, kWHERE)

\* the checks with the DROP/TRUNCATE rule ahead of the allow-list
Validate_DangerousFirst(s, n) ==
    LET sql_upper == Upper(Strip(s))
    IN  IF RangeCheckFails(n)
        THEN [returned |-> TRUE, result |-> RangeErrorResult, optimized_sql |-> <<>>]
        ELSE IF Dangerous(sql_upper)
        THEN [returned |-> TRUE, result |-> DangerousResult, optimized_sql |-> <<>>]
        ELSE IF NotAllowed(sql_upper)
        THEN [returned |-> TRUE, result |-> NotAllowedResult, optimized_sql |-> <<>>]
        ELSE IF MissingWhere(sql_upper)
        THEN [returned |-> TRUE, result |-> NoWhereResult, optimized_sql |-> <<>>]
        ELSE [returned |-> FALSE, result |-> [success |-> TRUE],
              optimized_sql |-> enforce_limit(s, n)]

\* The early return taken, if any; otherwise the text to execute.
Validate(s, n) ==
    LET sql_upper == Upper(Strip(s))
    IN  IF RangeCheckFails(n)
        THEN [returned |-> TRUE, result |-> RangeErrorResult, optimized_sql |-> <<>>]
        ELSE IF NotAllowed(sql_upper)
        THEN [returned |-> TRUE, result |-> NotAllowedResult, optimized_sql |-> <<>>]
        ELSE IF Dangerous(sql_upper)
        THEN [returned |-> TRUE, result |-> DangerousResult, optimized_sql |-> <<>>]
        ELSE IF MissingWhere(sql_upper)
        THEN [returned |-> TRUE, result |-> NoWhereResult, optimized_sql |-> <<>>]
        ELSE [returned |-> FALSE, result |-> [success |-> TRUE],
              optimized_sql |-> enforce_limit(s, n)]

----------------------------------------------------------------------------
(* batch_insert, lines 278-301: the statement built from the arguments *)

\* sep.join(parts)
RECURSIVE Join(_, _)
Join(parts, sep) ==
    IF Len(parts) = 0 THEN <<>>
    ELSE IF Len(parts) = 1 THEN parts[1]
    ELSE parts[1] \o sep \o Join(Tail(parts), sep)

\* val.replace("'", "''")
RECURSIVE ReplaceQuote(_)
ReplaceQuote(x) ==
    IF Len(x) = 0 THEN <<>>
    ELSE (IF Head(x) = "'" THEN <<"'", "'">> ELSE <<Head(x)>>)
            \o ReplaceQuote(Tail(x))

\* the rendering that leaves the quotes of a string as they are
Escaped_NoDoubling(val) ==
    IF val.t = "null" THEN <<"N","U","L","L">>
    ELSE IF val.t = "str" THEN <<"'">> \o val.s \o <<"'">>
    ELSE IF val.t = "bool" THEN (IF val.n = 1 THEN <<"T","R","U","E">> ELSE <<"F","A","L","S","E">>)
    ELSE IntToStr(val.n)

\* lines 287-295: one value as a SQL literal
Escaped(val) ==
    IF val.t = "null" THEN <<"N","U","L","L">>
    ELSE IF val.t = "str" THEN <<"'">> \o ReplaceQuote(val.s) \o <<"'">>
    ELSE IF val.t = "bool" THEN (IF val.n = 1 THEN <<"T","R","U","E">> ELSE <<"F","A","L","S","E">>)
    ELSE IntToStr(val.n)

\* line 297: one row as a tuple
ValueRow(row) ==
    <<"(">> \o Join([i \in 1..Len(row) |-> Escaped(row[i])], <<",", " ">>) \o <<")">>

\* lines 279-301
BuildInsert(table, columns, values) ==
    LET cols_str == Join(columns, <<",", " ">>)
        value_rows == [i \in 1..Len(values) |-> ValueRow(values[i])]
        values_str == Join(value_rows, <<",", "\n", " ", " ">>)
    IN  <<"I","N","S","E","R","T"," ","I","N","T","O"," ">> \o table \o <<" ", "(">> \o cols_str
            \o <<")", " ">> \o <<"V","A","L","U","E","S">> \o <<"\n", " ", " ">> \o values_str

----------------------------------------------------------------------------
(* The sql texts drawn: every concatenation of at most MaxPieces pieces *)

Vocab ==
    { kSELECT, kSHOW, kDESCRIBE, kCREATE, kALTER, kINSERT, kUPDATE, kDELETE,
      kMERGE, kBEGIN, kCOMMIT, kROLLBACK, kDROP,
      <<" ","s","e","l","e","c","t"," ">>,
      <<"t","r","u","n","c","a","t","e">>,
      <<" ","W","h","e","r","e"," ">>,
      <<" ","l","i","m","i","t"," ","5">>,
      <<" ","C","O","U","N","T","(","*",")">>,
      <<" ","g","r","o","u","p"," ","b","y"," ","x">>,
      <<"\n">>,
      <<" ","T","1">> }

RECURSIVE Flatten(_)
Flatten(ps) == IF ps = <<>> THEN <<>> ELSE Head(ps) \o Flatten(Tail(ps))

Texts ==
    UNION { {Flatten(ps) : ps \in [1..k -> Vocab]} : k \in 0..MaxPieces }

\* the max_rows values drawn: both edges of the range, inside and outside
RowInputs == {0, 1, 2, DEFAULT_MAX_ROWS, MAX_ROWS_LIMIT, MAX_ROWS_LIMIT + 1}

\* the statements sent to the gateway
SqlInputs ==
    LET T1 == <<" ","T","1">>
        sel == <<" ","s","e","l","e","c","t"," ">>
        wh == <<" ","W","h","e","r","e"," ">>
        lim == <<" ","l","i","m","i","t"," ","5">>
        cnt == <<" ","C","O","U","N","T","(","*",")">>
        grp == <<" ","g","r","o","u","p"," ","b","y"," ","x">>
        trunc == <<"t","r","u","n","c","a","t","e">>
    IN  { Flatten(ps) : ps \in
          { <<>>, <<<<"\n">>>>, <<T1, kSELECT>>,
            <<kSELECT, T1>>, <<sel, T1>>, <<kSELECT, T1, lim>>,
            <<kSELECT, cnt>>, <<kSELECT, cnt, grp>>,
            <<kSHOW, T1>>, <<kDESCRIBE, T1>>, <<kSHOW, lim>>,
            <<kCREATE, T1>>, <<kALTER, T1>>, <<kINSERT, T1>>,
            <<kUPDATE, T1>>, <<kUPDATE, T1, wh>>,
            <<kDELETE, T1>>, <<kDELETE, wh>>,
            <<kMERGE, T1>>, <<kBEGIN>>, <<kCOMMIT>>, <<kROLLBACK, <<"\n">>>>,
            <<kDROP, T1>>, <<kSELECT, T1, kDROP>>, <<kINSERT, T1, trunc>>,
            <<kUPDATE, trunc>>, <<kUPDATE, trunc, wh>> } }

----------------------------------------------------------------------------
(* The engine: connections, result sets, failures *)

\* the column lists cursor.description can give (none: the empty list)
EngineColumns ==
    { <<>>,
      <<<<"I","D">>, <<"d","e","s","c","r","i","p","t","i","o","n">>>> }

\* row i of a result set
EngineRow(i) == <<IntV(i), StrV(<<"r">> \o IntToStr(i))>>

\* cursor.fetchall() in the place of fetchmany
FetchMany_All(avail, n) == [i \in 1..avail |-> EngineRow(i)]

\* cursor.fetchmany(n) on a result set of avail rows
FetchMany(avail, n) ==
    [i \in 1..(IF avail < n THEN avail ELSE n) |-> EngineRow(i)]

\* cursor.rowcount: -1 when the engine does not report a count
RowCounts == {-1, 0, 1}

Calls == 1..MaxCalls

NoResult == [pending |-> TRUE]

NoBatch == [table |-> <<>>, columns |-> <<>>, values |-> <<>>]

\* nothing answered yet: no description, no count, no exception
NoEngine == [description |-> <<>>, rowcount |-> -1, raised |-> ""]

\* a module-level conn shared by the calls: the connection acquired last
ConnOf_Shared(c) == Len(conns)

\* the connection a call executes on and closes: its local conn
ConnOf(c) == conn[c]

\* the batches sent to the gateway
BatchInputs ==
    LET A == <<"A">>
        B == <<"B">>
        Tt == <<"T">>
    IN  { [table |-> Tt, columns |-> <<A, B>>,
           values |-> <<<<IntV(1), StrV(<<"x">>)>>, <<IntV(2), StrV(<<"y", "'", "s">>)>>>>],
          [table |-> Tt, columns |-> <<A>>, values |-> <<>>],
          [table |-> Tt, columns |-> <<A, B>>, values |-> <<<<IntV(1)>>>>],
          [table |-> Tt, columns |-> <<A, B>>,
           values |-> <<<<NullV, BoolV(TRUE)>>, <<IntV(1), IntV(2), IntV(3)>>>>],
          [table |-> <<"t", "_", "d", "r", "o", "p">>, columns |-> <<A>>,
           values |-> <<<<StrV(<<"x">>)>>>>],
          [table |-> Tt, columns |-> <<A>>,
           values |-> <<<<StrV(<<"T", "r", "u", "n", "c", "a", "t", "e">>)>>>>] }

----------------------------------------------------------------------------
(* snowflake_query, step by step *)

\* an except clause that lets the exception go on to the caller
ExceptHandler_Reraise(e) == [raised |-> e]

\* lines 232-238: the except clause
ExceptHandler(e) == [success |-> FALSE, error |-> e, version |-> "V2.2"]

\* conn.close()
CloseConn(cs, id) == [cs EXCEPT ![id] = "closed"]

\* lines 194-201
RowsResult(data, columns) ==
    [success |-> TRUE, data |-> data, columns |-> columns,
     row_count |-> Len(data), optimized |-> TRUE, version |-> "V2.2"]

\* " executed successfully"
ExecutedSuccessfully ==
    <<" ", "e", "x", "e", "c", "u", "t", "e", "d", " ",
      "s", "u", "c", "c", "e", "s", "s", "f", "u", "l", "l", "y">>

\* lines 208-215
TxnResult(sql_upper) ==
    [success |-> TRUE,
     message |-> FirstToken(sql_upper) \o ExecutedSuccessfully,
     transaction_control |-> TRUE, version |-> "V2.2"]

\* the effect result that leaves a negative count out as a null
EffectResult_NullOnNegative(sql_upper, rows_affected) ==
    [success |-> TRUE,
     message |-> FirstToken(sql_upper) \o ExecutedSuccessfully,
     rows_affected |-> IF rows_affected >= 0 THEN IntV(rows_affected) ELSE NullV,
     version |-> "V2.2"]

\* lines 223-230
EffectResult(sql_upper, rows_affected) ==
    [success |-> TRUE,
     message |-> FirstToken(sql_upper) \o ExecutedSuccessfully,
     rows_affected |-> IF rows_affected >= 0 THEN IntV(rows_affected)
                       ELSE StrV(<<"N","/","A">>),
     version |-> "V2.2"]

\* the tool is invoked; one call runs at a time
Call(c, s, n) ==
    /\ \A d \in Calls : pc[d] = "idle"
    /\ pc' = [pc EXCEPT ![c] = "validate"]
    /\ sql' = [sql EXCEPT ![c] = s]
    /\ max_rows' = [max_rows EXCEPT ![c] = n]
    /\ tool' = [tool EXCEPT ![c] = "snowflake_query"]
    /\ UNCHANGED <<optimized_sql, conn, fetched, result, executed, conns,
                   batch, engine, closed, fnVars>>

\* lines 118-172
ValidateStep(c) ==
    /\ pc[c] = "validate"
    /\ LET v == Validate(sql[c], max_rows[c])
       IN  IF v.returned
           THEN /\ result' = [result EXCEPT ![c] = v.result]
                /\ pc' = [pc EXCEPT ![c] = "done"]
                /\ UNCHANGED optimized_sql
           ELSE /\ optimized_sql' = [optimized_sql EXCEPT ![c] = v.optimized_sql]
                /\ pc' = [pc EXCEPT ![c] = "connect"]
                /\ UNCHANGED result
    /\ UNCHANGED <<sql, max_rows, conn, fetched, executed, conns,
                   tool, batch, engine, closed, fnVars>>

\* line 175, get_snowflake_connection returns a fresh connection
Connect(c) ==
    /\ pc[c] = "connect"
    /\ Len(conns) < MaxConns
    /\ conns' = Append(conns, "open")
    /\ conn' = [conn EXCEPT ![c] = Len(conns) + 1]
    /\ pc' = [pc EXCEPT ![c] = "execute"]
    /\ UNCHANGED <<sql, max_rows, optimized_sql, fetched, result, executed,
                   tool, batch, engine, closed, fnVars>>

\* line 175, get_snowflake_connection raises
ConnectFails(c) ==
    /\ pc[c] = "connect"
    /\ result' = [result EXCEPT ![c] = ExceptHandler("connection failed")]
    /\ pc' = [pc EXCEPT ![c] = "done"]
    /\ engine' = [engine EXCEPT ![c].raised = "connection failed"]
    /\ UNCHANGED <<sql, max_rows, optimized_sql, conn, fetched, executed, conns,
                   tool, batch, closed, fnVars>>

\* lines 176-177, the statement runs
Execute(c) ==
    /\ pc[c] = "execute"
    /\ executed' = [executed EXCEPT
                        ![c] = Append(@, [text |-> optimized_sql[c], ok |-> TRUE,
                                          conn |-> ConnOf(c)])]
    /\ pc' = [pc EXCEPT ![c] = "results"]
    /\ UNCHANGED <<sql, max_rows, optimized_sql, conn, fetched, result, conns,
                   tool, batch, engine, closed, fnVars>>

\* lines 176-177, cursor.execute raises
ExecuteFails(c) ==
    /\ pc[c] = "execute"
    /\ executed' = [executed EXCEPT
                        ![c] = Append(@, [text |-> optimized_sql[c], ok |-> FALSE,
                                          conn |-> ConnOf(c)])]
    /\ result' = [result EXCEPT ![c] = ExceptHandler("execute failed")]
    /\ pc' = [pc EXCEPT ![c] = "done"]
    /\ engine' = [engine EXCEPT ![c].raised = "execute failed"]
    /\ UNCHANGED <<sql, max_rows, optimized_sql, conn, fetched, conns,
                   tool, batch, closed, fnVars>>

\* lines 180-201, the read branch
ReadResults(c) ==
    /\ pc[c] = "results"
    /\ StartsWithAny(Upper(Strip(sql[c])), read_starts)
    /\ \E avail \in 0..MaxAvail, columns \in EngineColumns :
          LET results == FetchMany(avail, max_rows[c])
              data == [i \in 1..Len(results) |-> DictZip(columns, results[i])]
              optimized_data == optimize_columns(data, columns)
          IN  /\ fetched' = [fetched EXCEPT ![c] = results]
              /\ engine' = [engine EXCEPT ![c].description = columns]
              /\ result' = [result EXCEPT ![c] = RowsResult(optimized_data, columns)]
    /\ conns' = CloseConn(conns, ConnOf(c))
    /\ pc' = [pc EXCEPT ![c] = "done"]
    /\ closed' = [closed EXCEPT ![c] = ConnOf(c)]
    /\ UNCHANGED <<sql, max_rows, optimized_sql, conn, executed, tool, batch, fnVars>>

\* lines 182-183, fetchmany or description raises
ReadFails(c) ==
    /\ pc[c] = "results"
    /\ StartsWithAny(Upper(Strip(sql[c])), read_starts)
    /\ result' = [result EXCEPT ![c] = ExceptHandler("fetch failed")]
    /\ pc' = [pc EXCEPT ![c] = "done"]
    /\ engine' = [engine EXCEPT ![c].raised = "fetch failed"]
    /\ UNCHANGED <<sql, max_rows, optimized_sql, conn, fetched, executed, conns,
                   tool, batch, closed, fnVars>>

\* lines 203-215, the transaction-control branch
TxnResults(c) ==
    /\ pc[c] = "results"
    /\ ~StartsWithAny(Upper(Strip(sql[c])), read_starts)
    /\ StartsWithAny(Upper(Strip(sql[c])), txn_starts)
    /\ conns' = CloseConn(conns, ConnOf(c))
    /\ result' = [result EXCEPT ![c] = TxnResult(Upper(Strip(sql[c])))]
    /\ pc' = [pc EXCEPT ![c] = "done"]
    /\ closed' = [closed EXCEPT ![c] = ConnOf(c)]
    /\ UNCHANGED <<sql, max_rows, optimized_sql, conn, fetched, executed,
                   tool, batch, engine, fnVars>>

\* lines 217-230, the DDL/DML branch
EffectResults(c) ==
    /\ pc[c] = "results"
    /\ ~StartsWithAny(Upper(Strip(sql[c])), read_starts)
    /\ ~StartsWithAny(Upper(Strip(sql[c])), txn_starts)
    /\ \E rows_affected \in RowCounts :
          /\ engine' = [engine EXCEPT ![c].rowcount = rows_affected]
          /\ result' = [result EXCEPT
                           ![c] = EffectResult(Upper(Strip(sql[c])), rows_affected)]
    /\ conns' = CloseConn(conns, ConnOf(c))
    /\ pc' = [pc EXCEPT ![c] = "done"]
    /\ closed' = [closed EXCEPT ![c] = ConnOf(c)]
    /\ UNCHANGED <<sql, max_rows, optimized_sql, conn, fetched, executed,
                   tool, batch, fnVars>>

----------------------------------------------------------------------------
(* batch_insert, step by step *)

\* lines 272-276
NoValuesResult ==
    [success |-> FALSE, error |-> "No values provided", version |-> "V2.2"]

\* lines 319-325: the except clause
BatchExceptHandler(e) == [success |-> FALSE, error |-> e, version |-> "V2.2"]

\* lines 311-317
BatchResult(values, rows_affected) ==
    [success |-> TRUE, message |-> "Batch INSERT executed successfully",
     rows_inserted |-> Len(values),
     rows_affected |-> IF rows_affected >= 0 THEN rows_affected ELSE Len(values),
     version |-> "V2.2"]

\* the tool is invoked; one call runs at a time
BatchCall(c, b) ==
    /\ \A d \in Calls : pc[d] = "idle"
    /\ pc' = [pc EXCEPT ![c] = "b_build"]
    /\ tool' = [tool EXCEPT ![c] = "batch_insert"]
    /\ batch' = [batch EXCEPT ![c] = b]
    /\ UNCHANGED <<sql, max_rows, optimized_sql, conn, fetched, result, executed,
                   conns, engine, closed, fnVars>>

\* lines 270-301
BatchBuild(c) ==
    /\ pc[c] = "b_build"
    /\ IF Len(batch[c].values) = 0
       THEN /\ result' = [result EXCEPT ![c] = NoValuesResult]
            /\ pc' = [pc EXCEPT ![c] = "done"]
            /\ UNCHANGED sql
       ELSE /\ sql' = [sql EXCEPT ![c] = BuildInsert(batch[c].table,
                                                      batch[c].columns,
                                                      batch[c].values)]
            /\ pc' = [pc EXCEPT ![c] = "b_connect"]
            /\ UNCHANGED result
    /\ UNCHANGED <<max_rows, optimized_sql, conn, fetched, executed, conns,
                   tool, batch, engine, closed, fnVars>>

\* line 304, get_snowflake_connection returns a fresh connection
BatchConnect(c) ==
    /\ pc[c] = "b_connect"
    /\ Len(conns) < MaxConns
    /\ conns' = Append(conns, "open")
    /\ conn' = [conn EXCEPT ![c] = Len(conns) + 1]
    /\ pc' = [pc EXCEPT ![c] = "b_execute"]
    /\ UNCHANGED <<sql, max_rows, optimized_sql, fetched, result, executed,
                   tool, batch, engine, closed, fnVars>>

\* line 304, get_snowflake_connection raises
BatchConnectFails(c) ==
    /\ pc[c] = "b_connect"
    /\ engine' = [engine EXCEPT ![c].raised = "connection failed"]
    /\ result' = [result EXCEPT ![c] = BatchExceptHandler("connection failed")]
    /\ pc' = [pc EXCEPT ![c] = "done"]
    /\ UNCHANGED <<sql, max_rows, optimized_sql, conn, fetched, executed, conns,
                   tool, batch, closed, fnVars>>

\* lines 305-306, the statement runs
BatchExecute(c) ==
    /\ pc[c] = "b_execute"
    /\ executed' = [executed EXCEPT
                        ![c] = Append(@, [text |-> sql[c], ok |-> TRUE,
                                          conn |-> ConnOf(c)])]
    /\ pc' = [pc EXCEPT ![c] = "b_results"]
    /\ UNCHANGED <<sql, max_rows, optimized_sql, conn, fetched, result, conns,
                   tool, batch, engine, closed, fnVars>>

\* lines 305-306, cursor.execute raises
BatchExecuteFails(c) ==
    /\ pc[c] = "b_execute"
    /\ executed' = [executed EXCEPT
                        ![c] = Append(@, [text |-> sql[c], ok |-> FALSE,
                                          conn |-> ConnOf(c)])]
    /\ engine' = [engine EXCEPT ![c].raised = "execute failed"]
    /\ result' = [result EXCEPT ![c] = BatchExceptHandler("execute failed")]
    /\ pc' = [pc EXCEPT ![c] = "done"]
    /\ UNCHANGED <<sql, max_rows, optimized_sql, conn, fetched, conns,
                   tool, batch, closed, fnVars>>

\* lines 307-317
BatchResults(c) ==
    /\ pc[c] = "b_results"
    /\ \E rows_affected \in RowCounts :
          /\ engine' = [engine EXCEPT ![c].rowcount = rows_affected]
          /\ result' = [result EXCEPT
                           ![c] = BatchResult(batch[c].values, rows_affected)]
    /\ conns' = CloseConn(conns, ConnOf(c))
    /\ closed' = [closed EXCEPT ![c] = ConnOf(c)]
    /\ pc' = [pc EXCEPT ![c] = "done"]
    /\ UNCHANGED <<sql, max_rows, optimized_sql, conn, fetched, executed,
                   tool, batch, fnVars>>

\* the caller has the result; the call's frame is gone
Return(c) ==
    /\ pc[c] = "done"
    /\ pc' = [pc EXCEPT ![c] = "idle"]
    /\ sql' = [sql EXCEPT ![c] = <<>>]
    /\ max_rows' = [max_rows EXCEPT ![c] = DEFAULT_MAX_ROWS]
    /\ optimized_sql' = [optimized_sql EXCEPT ![c] = <<>>]
    /\ conn' = [conn EXCEPT ![c] = 0]
    /\ fetched' = [fetched EXCEPT ![c] = <<>>]
    /\ result' = [result EXCEPT ![c] = NoResult]
    /\ executed' = [executed EXCEPT ![c] = <<>>]
    /\ tool' = [tool EXCEPT ![c] = "none"]
    /\ batch' = [batch EXCEPT ![c] = NoBatch]
    /\ engine' = [engine EXCEPT ![c] = NoEngine]
    /\ closed' = [closed EXCEPT ![c] = 0]
    /\ UNCHANGED <<conns, fnVars>>

NoFn == [f |-> "none", sql |-> <<>>, max_rows |-> 0, data |-> <<>>, columns |-> <<>>]

GatewayIdle ==
    /\ pc = [c \in Calls |-> "idle"]
    /\ sql = [c \in Calls |-> <<>>]
    /\ max_rows = [c \in Calls |-> DEFAULT_MAX_ROWS]
    /\ optimized_sql = [c \in Calls |-> <<>>]
    /\ conn = [c \in Calls |-> 0]
    /\ fetched = [c \in Calls |-> <<>>]
    /\ result = [c \in Calls |-> NoResult]
    /\ executed = [c \in Calls |-> <<>>]
    /\ conns = <<>>
    /\ tool = [c \in Calls |-> "none"]
    /\ batch = [c \in Calls |-> NoBatch]
    /\ engine = [c \in Calls |-> NoEngine]
    /\ closed = [c \in Calls |-> 0]

Init ==
    /\ GatewayIdle
    /\ fnArgs = NoFn
    /\ fnOut = <<>>

Next ==
    \/ \E c \in Calls, s \in SqlInputs, n \in RowInputs : Call(c, s, n)
    \/ \E c \in Calls : ValidateStep(c)
    \/ \E c \in Calls : Connect(c)
    \/ \E c \in Calls : ConnectFails(c)
    \/ \E c \in Calls : Execute(c)
    \/ \E c \in Calls : ExecuteFails(c)
    \/ \E c \in Calls : ReadResults(c)
    \/ \E c \in Calls : ReadFails(c)
    \/ \E c \in Calls : TxnResults(c)
    \/ \E c \in Calls : EffectResults(c)
    \/ \E c \in Calls, b \in BatchInputs : BatchCall(c, b)
    \/ \E c \in Calls : BatchBuild(c)
    \/ \E c \in Calls : BatchConnect(c)
    \/ \E c \in Calls : BatchConnectFails(c)
    \/ \E c \in Calls : BatchExecute(c)
    \/ \E c \in Calls : BatchExecuteFails(c)
    \/ \E c \in Calls : BatchResults(c)
    \/ \E c \in Calls : Return(c)

Spec == Init /\ [][Next]_vars

----------------------------------------------------------------------------
(* Calls in flight together: the steps of the calls interleave *)

\* the statements and batches sent while other calls are in flight: a read,
\* a transaction statement and a batch
ConcSql == { kSELECT \o <<" ", "T", "1">>, kBEGIN }

ConcBatches ==
    {b \in BatchInputs : b.table = <<"T">> /\ Len(b.columns) = 1 /\ Len(b.values) > 0}

\* snowflake_query is invoked; calls are numbered as they arrive
ConcCall(c, s, n) ==
    /\ pc[c] = "idle"
    /\ \A d \in 1..(c - 1) : pc[d] # "idle"
    /\ pc' = [pc EXCEPT ![c] = "validate"]
    /\ sql' = [sql EXCEPT ![c] = s]
    /\ max_rows' = [max_rows EXCEPT ![c] = n]
    /\ tool' = [tool EXCEPT ![c] = "snowflake_query"]
    /\ UNCHANGED <<optimized_sql, conn, fetched, result, executed, conns,
                   batch, engine, closed, fnVars>>

\* batch_insert is invoked; calls are numbered as they arrive
ConcBatchCall(c, b) ==
    /\ pc[c] = "idle"
    /\ \A d \in 1..(c - 1) : pc[d] # "idle"
    /\ pc' = [pc EXCEPT ![c] = "b_build"]
    /\ tool' = [tool EXCEPT ![c] = "batch_insert"]
    /\ batch' = [batch EXCEPT ![c] = b]
    /\ UNCHANGED <<sql, max_rows, optimized_sql, conn, fetched, result, executed,
                   conns, engine, closed, fnVars>>

NextConc ==
    \/ \E c \in Calls, s \in ConcSql : ConcCall(c, s, 1)
    \/ \E c \in Calls, b \in ConcBatches : ConcBatchCall(c, b)
    \/ \E c \in Calls : ValidateStep(c)
    \/ \E c \in Calls : Connect(c)
    \/ \E c \in Calls : ConnectFails(c)
    \/ \E c \in Calls : Execute(c)
    \/ \E c \in Calls : ExecuteFails(c)
    \/ \E c \in Calls : ReadResults(c)
    \/ \E c \in Calls : ReadFails(c)
    \/ \E c \in Calls : TxnResults(c)
    \/ \E c \in Calls : BatchBuild(c)
    \/ \E c \in Calls : BatchConnect(c)
    \/ \E c \in Calls : BatchConnectFails(c)
    \/ \E c \in Calls : BatchExecute(c)
    \/ \E c \in Calls : BatchExecuteFails(c)
    \/ \E c \in Calls : BatchResults(c)

SpecConc == Init /\ [][NextConc]_vars

----------------------------------------------------------------------------
(* The pure functions, applied to drawn arguments *)

\* a text of the given length whose characters tell their position
TextOfLen(len) == [i \in 1..len |-> Digits[(i % 10) + 1]]

ShapeValues ==
    { NullV, IntV(7) } \cup
    { StrV(TextOfLen(len)) :
        len \in {1, TRUNCATE_AT, TRUNCATE_AT + 1, TRUNCATE_AT + MaxOver} }

ShapeColumns ==
    { <<>>,
      <<<<"P","R","I","C","E">>>>,
      <<<<"D","e","s","c","r","i","p","t","i","o","n">>>>,
      <<<<"r","a","w","_","j","s","o","n">>, <<"I","D">>>>,
      <<<<"D","A","T","A">>, <<"D","A","T","A">>>> }

\* the rows drawn for a column list
ShapeRows(columns) ==
    IF Len(columns) = 0 THEN {<<>>}
    ELSE IF Len(columns) = 1 THEN {<<v>> : v \in ShapeValues}
    ELSE {<<v, IntV(7)>> : v \in ShapeValues}
            \cup {<<NullV, v>> : v \in ShapeValues}

ShapeArgs ==
    UNION { { [f |-> "optimize_columns", sql |-> <<>>, max_rows |-> 0,
               columns |-> columns,
               data |-> [i \in 1..k |-> DictZip(columns, rows[i])]] :
              rows \in [1..k -> ShapeRows(columns)] } :
            columns \in ShapeColumns, k \in 0..MaxShapeRows }

PolicyArgs ==
    { [f |-> "snowflake_query", sql |-> s, max_rows |-> n,
       data |-> <<>>, columns |-> <<>>] : s \in Texts, n \in RowInputs }

\* the limits given to enforce_limit
LimitInputs == {1, DEFAULT_MAX_ROWS, MAX_ROWS_LIMIT}

LimitArgs ==
    { [f |-> "enforce_limit", sql |-> s, max_rows |-> n,
       data |-> <<>>, columns |-> <<>>] : s \in Texts, n \in LimitInputs }

\* the values drawn for a batch: None, booleans, integers, strings with
\* and without quotes
BatchValues ==
    { NullV, BoolV(TRUE), BoolV(FALSE), IntV(1), IntV(20),
      StrV(<<"x">>), StrV(<<"y", "'", "s">>), StrV(<<"'", "'">>), StrV(<<>>) }

BatchColumns == { <<<<"A">>>>, <<<<"A">>, <<"B">>>> }

\* the rows drawn for a column list
BatchRows(columns) ==
    IF Len(columns) = 1 THEN {<<v>> : v \in BatchValues}
    ELSE {<<IntV(1), v>> : v \in BatchValues}
            \cup {<<IntV(2), StrV(<<"y", "'", "s">>)>>, <<NullV, BoolV(TRUE)>>}

BuildArgs ==
    UNION { { [f |-> "batch_insert", table |-> <<"T">>, columns |-> columns,
               values |-> values] :
              values \in [1..k -> BatchRows(columns)] } :
            columns \in BatchColumns, k \in 1..MaxBatchRows }

InitFn ==
    /\ GatewayIdle
    /\ \/ fnArgs \in PolicyArgs \cup LimitArgs \cup ShapeArgs
       \/ fnArgs \in BuildArgs
    /\ fnOut = <<>>

\* snowflake_query up to line 172
ApplyValidate ==
    /\ fnArgs.f = "snowflake_query"
    /\ fnOut = <<>>
    /\ fnOut' = <<Validate(fnArgs.sql, fnArgs.max_rows)>>
    /\ UNCHANGED <<fnArgs, gatewayVars>>

\* enforce_limit(sql, max_rows)
ApplyEnforceLimit ==
    /\ fnArgs.f = "enforce_limit"
    /\ fnOut = <<>>
    /\ fnOut' = <<[max_rows |-> fnArgs.max_rows,
                   out |-> enforce_limit(fnArgs.sql, fnArgs.max_rows)]>>
    /\ UNCHANGED <<fnArgs, gatewayVars>>

\* enforce_limit applied to its own output, with any limit
ApplyEnforceLimitAgain ==
    /\ fnArgs.f = "enforce_limit"
    /\ Len(fnOut) = 1
    /\ \E m \in LimitInputs :
          fnOut' = Append(fnOut, [max_rows |-> m, out |-> enforce_limit(fnOut[1].out, m)])
    /\ UNCHANGED <<fnArgs, gatewayVars>>

\* optimize_columns(data, columns)
ApplyOptimizeColumns ==
    /\ fnArgs.f = "optimize_columns"
    /\ fnOut = <<>>
    /\ fnOut' = <<optimize_columns(fnArgs.data, fnArgs.columns)>>
    /\ UNCHANGED <<fnArgs, gatewayVars>>

\* batch_insert, lines 278-301
ApplyBuildInsert ==
    /\ fnArgs.f = "batch_insert"
    /\ fnOut = <<>>
    /\ fnOut' = <<BuildInsert(fnArgs.table, fnArgs.columns, fnArgs.values)>>
    /\ UNCHANGED <<fnArgs, gatewayVars>>

NextFn ==
    \/ ApplyValidate
    \/ ApplyEnforceLimit
    \/ ApplyEnforceLimitAgain
    \/ ApplyOptimizeColumns
    \/ ApplyBuildInsert

SpecFn == InitFn /\ [][NextFn]_vars

----------------------------------------------------------------------------
(* Properties *)

AllIdle == \A c \in Calls : pc[c] = "idle"

\* the pre-connection rejections of snowflake_query
Rejections == {RangeErrorResult, NotAllowedResult, DangerousResult, NoWhereResult}

\* the policy as the specification words it, on the text as given
PolicyAllows(s) ==
    LET u == Upper(Strip(s))
    IN  /\ \E i \in 1..Len(allowed_starts) : StartsWith(u, allowed_starts[i])
        /\ ~Contains(Upper(s), kDROP)
        /\ ~Contains(Upper(s), kTRUNCATE)
        /\ (StartsWith(u, kUPDATE) \/ StartsWith(u, kDELETE))
              => Contains(Upper(s), kWHERE)

\* the text with " LIMIT <n>" appended to its trimmed form
WithLimit(s, n) == Strip(s) \o <<" ","L","I","M","I","T"," ">> \o IntToStr(n)

\* C1: every connection a call acquired is closed when the call returns, on
\* every exit path, and once all calls have returned no connection is open.
C1_ConnectionsReleased ==
    /\ \A c \in Calls :
          (pc[c] = "done" /\ conn[c] # 0) => conns[conn[c]] = "closed"
    /\ AllIdle => \A i \in DOMAIN conns : conns[i] = "closed"

\* C2: a call always ends with a structured result; a failure result has
\* success = false and carries an error message; a success result is given
\* only when Execute ran and did not fail.
C2_NeverThrows ==
    \A c \in Calls :
        pc[c] = "done" =>
            /\ "success" \in DOMAIN result[c]
            /\ result[c].success = FALSE => "error" \in DOMAIN result[c]
            /\ result[c].success = TRUE =>
                  /\ "error" \notin DOMAIN result[c]
                  /\ Len(executed[c]) = 1
                  /\ executed[c][1].ok

\* C2 witness: Execute failed and the call returned the error payload.
C2_Witness ==
    \E c \in Calls :
        /\ pc[c] = "done"
        /\ Len(executed[c]) = 1
        /\ ~executed[c][1].ok
        /\ result[c] = [success |-> FALSE, error |-> "execute failed",
                        version |-> "V2.2"]

\* C3: a text whose upper-cased form contains DROP or TRUNCATE anywhere is
\* denied by snowflake_query, whatever its leading keyword and max_rows.
C3_DropTruncateDenied ==
    ( /\ fnArgs.f = "snowflake_query"
      /\ Len(fnOut) = 1
      /\ \/ Contains(Upper(fnArgs.sql), kDROP)
         \/ Contains(Upper(fnArgs.sql), kTRUNCATE) )
    => /\ fnOut[1].returned
       /\ fnOut[1].result.success = FALSE
       /\ "error" \in DOMAIN fnOut[1].result

\* C3 witness: an allowed leading keyword, a valid max_rows, a lower-case
\* truncate later in the text, and the DROP/TRUNCATE denial.
C3_Witness ==
    /\ fnArgs.f = "snowflake_query"
    /\ Len(fnOut) = 1
    /\ fnArgs.max_rows = MAX_ROWS_LIMIT
    /\ StartsWith(fnArgs.sql, kINSERT)
    /\ Contains(fnArgs.sql, <<"t","r","u","n","c","a","t","e">>)
    /\ fnOut[1].returned
    /\ fnOut[1].result = DangerousResult

\* C4: of the texts that pass the range check, the allow-list and the
\* DROP/TRUNCATE rule, one that leads with UPDATE or DELETE is denied exactly
\* when its upper-cased form has no WHERE; one that leads with INSERT or MERGE
\* is not denied, with or without WHERE.
C4_WhereRule ==
    ( /\ fnArgs.f = "snowflake_query"
      /\ Len(fnOut) = 1
      /\ fnArgs.max_rows >= 1
      /\ fnArgs.max_rows <= MAX_ROWS_LIMIT
      /\ ~Contains(Upper(fnArgs.sql), kDROP)
      /\ ~Contains(Upper(fnArgs.sql), kTRUNCATE) )
    => LET u == Upper(Strip(fnArgs.sql))
       IN  /\ (StartsWith(u, kUPDATE) \/ StartsWith(u, kDELETE)) =>
                 /\ fnOut[1].returned <=> ~Contains(Upper(fnArgs.sql), kWHERE)
                 /\ fnOut[1].returned => fnOut[1].result = NoWhereResult
           /\ (StartsWith(u, kINSERT) \/ StartsWith(u, kMERGE)) =>
                 ~fnOut[1].returned

\* C4 witness: a DELETE with a mixed-case Where is let through.
C4_Witness ==
    /\ fnArgs.f = "snowflake_query"
    /\ Len(fnOut) = 1
    /\ StartsWith(fnArgs.sql, kDELETE)
    /\ Contains(fnArgs.sql, <<"W","h","e","r","e">>)
    /\ ~fnOut[1].returned

\* the statement kind of the keyword table, by the index in allowed_starts
KindOfKeyword(i) ==
    IF i \in {1, 2, 3} THEN "Read"
    ELSE IF i \in {4, 5} THEN "DDL"
    ELSE IF i \in {6, 7, 8} THEN "Write"
    ELSE IF i = 9 THEN "Upsert"
    ELSE "TransactionControl"

\* the result variant a successful call of a kind gives
VariantOfKind(k) ==
    IF k = "Read" THEN "data"
    ELSE IF k = "TransactionControl" THEN "transaction_control"
    ELSE "rows_affected"

\* C5: every text is classified, without a throw, by the one keyword that is
\* a prefix of its trimmed upper-cased form: at most one keyword matches; a
\* text no keyword prefixes is denied as not allowed, whatever keyword it
\* holds later, and reaches no connection; a text a keyword prefixes is never
\* denied as not allowed, and when it succeeds the result is the variant of
\* that keyword's kind.
C5_Classification ==
    \A c \in Calls :
        (tool[c] = "snowflake_query" /\ pc[c] = "done"
            /\ max_rows[c] >= 1 /\ max_rows[c] <= MAX_ROWS_LIMIT) =>
            LET u == Upper(Strip(sql[c]))
                matches == {i \in 1..Len(allowed_starts) :
                               StartsWith(u, allowed_starts[i])}
            IN  /\ Cardinality(matches) <= 1
                /\ "success" \in DOMAIN result[c]
                /\ matches = {} =>
                      /\ result[c] = NotAllowedResult
                      /\ executed[c] = <<>>
                      /\ conn[c] = 0
                /\ \A i \in matches :
                      /\ result[c] # NotAllowedResult
                      /\ result[c].success =>
                            \A v \in {"data", "transaction_control", "rows_affected"} :
                                v \in DOMAIN result[c]
                                    <=> v = VariantOfKind(KindOfKeyword(i))

\* C5 witness: a text that holds SELECT but does not lead with it is denied
\* as not allowed.
C5_Witness ==
    \E c \in Calls :
        /\ pc[c] = "done"
        /\ max_rows[c] = 1
        /\ Contains(Upper(sql[c]), kSELECT)
        /\ result[c] = NotAllowedResult

\* C6: the range check and the policy come before any connection: a call
\* that holds a connection or has executed has a max_rows in [1, 1000] and a
\* text the policy allows; a rejected call has no connection and executed
\* nothing; a call executes at most once, and only the original text or its
\* limit-enforced rewrite.
C6_ChecksBeforeConnection ==
    \A c \in Calls : tool[c] = "snowflake_query" =>
        /\ (conn[c] # 0 \/ executed[c] # <<>>
               \/ pc[c] \in {"connect", "execute", "results"}) =>
              /\ max_rows[c] >= 1
              /\ max_rows[c] <= MAX_ROWS_LIMIT
              /\ PolicyAllows(sql[c])
        /\ (pc[c] = "done"
               /\ (max_rows[c] < 1 \/ max_rows[c] > MAX_ROWS_LIMIT
                      \/ ~PolicyAllows(sql[c]))) =>
              /\ result[c] \in Rejections
              /\ conn[c] = 0
              /\ executed[c] = <<>>
        /\ Len(executed[c]) <= 1
        /\ \A k \in 1..Len(executed[c]) :
              /\ executed[c][k].text \in
                     {sql[c], WithLimit(sql[c], max_rows[c])}
              /\ executed[c][k].conn = conn[c]

\* C6 witness: after some call acquired a connection, a call with
\* max_rows = 1001 is rejected without one.
C6_Witness ==
    \E c \in Calls :
        /\ pc[c] = "done"
        /\ max_rows[c] = MAX_ROWS_LIMIT + 1
        /\ result[c] = RangeErrorResult
        /\ conn[c] = 0
        /\ Len(conns) > 0

\* the rewrite of the claim as stated: every Read text that has no LIMIT and
\* is not aggregate-only gets the limit
NeedsLimit(s, starts) ==
    LET u == Upper(Strip(s))
    IN  /\ StartsWithAny(u, starts)
        /\ ~Contains(u, kLIMIT)
        /\ ~(Contains(u, kCOUNT) /\ ~Contains(u, kGROUPBY))

\* C7 as stated: enforce_limit appends " LIMIT <n>" to the trimmed text of
\* every SELECT, SHOW or DESCRIBE that has no LIMIT and is not aggregate-only,
\* and returns every other text unchanged.
C7_Original ==
    (fnArgs.f = "enforce_limit" /\ Len(fnOut) >= 1) =>
        fnOut[1].out =
            IF NeedsLimit(fnArgs.sql, read_starts)
            THEN WithLimit(fnArgs.sql, fnArgs.max_rows)
            ELSE fnArgs.sql

\* C7 amended: enforce_limit appends " LIMIT <n>" to the trimmed text of
\* every SELECT that has no LIMIT and is not aggregate-only, and returns
\* every other text unchanged, SHOW and DESCRIBE included.
C7_SelectOnly ==
    (fnArgs.f = "enforce_limit" /\ Len(fnOut) >= 1) =>
        fnOut[1].out =
            IF NeedsLimit(fnArgs.sql, <<kSELECT>>)
            THEN WithLimit(fnArgs.sql, fnArgs.max_rows)
            ELSE fnArgs.sql

\* C7 witness: a lower-case select with blanks around it is trimmed and
\* gets the limit.
C7_Witness ==
    /\ fnArgs.f = "enforce_limit"
    /\ Len(fnOut) >= 1
    /\ StartsWith(fnArgs.sql, <<" ","s","e","l","e","c","t"," ">>)
    /\ fnArgs.max_rows = DEFAULT_MAX_ROWS
    /\ fnOut[1].out = Strip(fnArgs.sql) \o <<" ","L","I","M","I","T"," ","2","0">>
    /\ fnOut[1].out # fnArgs.sql \o <<" ","L","I","M","I","T"," ","2","0">>

\* C8: enforce_limit applied to its own output, with any limit, returns
\* that output.
C8_Idempotent ==
    (fnArgs.f = "enforce_limit" /\ Len(fnOut) = 2) => fnOut[2].out = fnOut[1].out

\* C8 witness: the first application rewrote the text and the second ran
\* with another limit.
C8_Witness ==
    /\ fnArgs.f = "enforce_limit"
    /\ Len(fnOut) = 2
    /\ fnOut[1].out # fnArgs.sql
    /\ fnOut[2].max_rows # fnOut[1].max_rows

\* C9: a read returns at most max_rows rows, and reports as many as it
\* returns, whatever the engine holds and whether or not the gateway rewrote
\* the text.
C9_RowsWithinLimit ==
    \A c \in Calls :
        (pc[c] = "done" /\ "data" \in DOMAIN result[c]) =>
            /\ Len(result[c].data) <= max_rows[c]
            /\ result[c].row_count <= max_rows[c]
            /\ result[c].row_count = Len(result[c].data)
            /\ Len(result[c].data) = Len(fetched[c])

\* C9 witness: a text with its own larger LIMIT, not rewritten, returns
\* max_rows rows.
C9_Witness ==
    \E c \in Calls :
        /\ pc[c] = "done"
        /\ Contains(sql[c], <<"l","i","m","i","t"," ","5">>)
        /\ max_rows[c] = 2
        /\ Len(executed[c]) = 1
        /\ executed[c][1].text = sql[c]
        /\ "data" \in DOMAIN result[c]
        /\ result[c].row_count = 2

\* the value the claim gives for a value of a column
ShapedValue(col, v) ==
    IF /\ \E i \in 1..Len(large_patterns) : Contains(Upper(col), large_patterns[i])
       /\ v.t = "str"
       /\ Len(v.s) > 500
    THEN StrV(SubSeq(v.s, 1, 500)
                \o <<".",".","."," ","[","t","r","u","n","c","a","t","e","d"," ">>
                \o IntToStr(Len(v.s) - 500)
                \o <<" ","c","h","a","r","s","]">>)
    ELSE v

\* C10: optimize_columns returns as many rows as it is given, in their
\* order; a text value longer than 500 characters in a column whose
\* upper-cased name contains JSON, DATA, RESPONSE, CONTENT or DESCRIPTION
\* becomes its first 500 characters and "... [truncated <n> chars]" with
\* n = length - 500; every other value is passed through unchanged.
C10_Shape ==
    (fnArgs.f = "optimize_columns" /\ Len(fnOut) = 1) =>
        LET out == fnOut[1]
        IN  /\ Len(out) = Len(fnArgs.data)
            /\ \A i \in 1..Len(out) :
                  /\ DOMAIN out[i] = DOMAIN fnArgs.data[i]
                  /\ \A col \in DOMAIN out[i] :
                        out[i][col] = ShapedValue(col, fnArgs.data[i][col])

\* C10 witness: a mixed-case Description value of 500 + MaxOver characters
\* is cut to 500 characters and the marker, next to a row left as it was.
C10_Witness ==
    /\ fnArgs.f = "optimize_columns"
    /\ Len(fnOut) = 1
    /\ Len(fnOut[1]) = 2
    /\ LET col == <<"D","e","s","c","r","i","p","t","i","o","n">>
       IN  /\ fnArgs.columns = <<col>>
           /\ Len(fnArgs.data[1][col].s) = 500 + MaxOver
           /\ Len(fnOut[1][1][col].s) = 500 + Len(truncated_marker(MaxOver))
           /\ SubSeq(fnOut[1][1][col].s, 1, 500) = SubSeq(fnArgs.data[1][col].s, 1, 500)
           /\ fnArgs.data[2][col] = NullV
           /\ fnOut[1][2][col] = NullV

----------------------------------------------------------------------------
(* The built statement *)

\* the parts with sep between neighbours, taken from the last part back
RECURSIVE Separated(_, _)
Separated(parts, sep) ==
    IF Len(parts) = 0 THEN <<>>
    ELSE IF Len(parts) = 1 THEN parts[1]
    ELSE Separated(SubSeq(parts, 1, Len(parts) - 1), sep) \o sep \o parts[Len(parts)]

\* a literal body read back: each pair of quotes is one quote, a quote that
\* stands alone is a fault
RECURSIVE Undoubled(_)
Undoubled(x) ==
    IF Len(x) = 0 THEN [ok |-> TRUE, s |-> <<>>]
    ELSE IF Head(x) # "'"
    THEN LET r == Undoubled(Tail(x)) IN [ok |-> r.ok, s |-> <<Head(x)>> \o r.s]
    ELSE IF Len(x) >= 2 /\ x[2] = "'"
    THEN LET r == Undoubled(SubSeq(x, 3, Len(x))) IN [ok |-> r.ok, s |-> <<"'">> \o r.s]
    ELSE [ok |-> FALSE, s |-> <<>>]

\* a value's literal is the one the rendering rules name
LiteralOf(val, lit) ==
    IF val.t = "null" THEN lit = <<"N", "U", "L", "L">>
    ELSE IF val.t = "bool"
    THEN lit = (IF val.n = 1 THEN <<"T", "R", "U", "E">> ELSE <<"F", "A", "L", "S", "E">>)
    ELSE IF val.t = "int" THEN lit = IntToStr(val.n)
    ELSE /\ Len(lit) >= 2
         /\ lit[1] = "'"
         /\ lit[Len(lit)] = "'"
         /\ Undoubled(SubSeq(lit, 2, Len(lit) - 1)) = [ok |-> TRUE, s |-> val.s]

\* the statement laid out around the literals, with the two separators given
Layout(table, columns, values, afterValues, betweenTuples) ==
    LET tuple(row) ==
            <<"(">> \o Separated([j \in 1..Len(row) |-> Escaped(row[j])], <<",", " ">>)
                \o <<")">>
    IN  <<"I", "N", "S", "E", "R", "T", " ", "I", "N", "T", "O", " ">> \o table
            \o <<" ", "(">> \o Separated(columns, <<",", " ">>) \o <<")", " ">>
            \o <<"V", "A", "L", "U", "E", "S">> \o afterValues
            \o Separated([i \in 1..Len(values) |-> tuple(values[i])], betweenTuples)

Built == fnArgs.f = "batch_insert" /\ fnOut # <<>>

ExampleBatch ==
    /\ fnArgs.f = "batch_insert"
    /\ fnArgs.table = <<"T">>
    /\ fnArgs.columns = <<<<"A">>, <<"B">>>>
    /\ fnArgs.values = <<<<IntV(1), StrV(<<"x">>)>>, <<IntV(2), StrV(<<"y", "'", "s">>)>>>>

----------------------------------------------------------------------------
(* Malformed batches *)

Malformed(b) ==
    \/ Len(b.values) = 0
    \/ \E i \in 1..Len(b.values) : Len(b.values[i]) # Len(b.columns)

\* C12: a batch_insert call whose values are empty, or one of whose rows has
\* a number of values other than the number of columns, acquires no
\* connection, executes nothing and returns an error result.
C12_MalformedRejected ==
    \A c \in Calls :
        (tool[c] = "batch_insert" /\ Malformed(batch[c])) =>
            /\ conn[c] = 0
            /\ executed[c] = <<>>
            /\ pc[c] = "done" => (result[c].success = FALSE /\ "error" \in DOMAIN result[c])

----------------------------------------------------------------------------
(* The result variants of snowflake_query *)

Succeeded(c) ==
    /\ tool[c] = "snowflake_query"
    /\ pc[c] = "done"
    /\ result[c].success = TRUE

IsRows(r) ==
    /\ {"data", "columns", "row_count"} \subseteq DOMAIN r
    /\ {"message", "rows_affected", "transaction_control"} \cap DOMAIN r = {}

IsEffect(r) ==
    /\ "message" \in DOMAIN r
    /\ {"data", "columns", "row_count"} \cap DOMAIN r = {}

\* the variant by statement kind, the count of a negative rowcount aside
VariantByKind(c) ==
    LET u == Upper(Strip(sql[c]))
        r == result[c]
    IN  IF StartsWith(u, kSELECT) \/ StartsWith(u, kSHOW) \/ StartsWith(u, kDESCRIBE)
        THEN /\ IsRows(r)
             /\ r.columns = engine[c].description
        ELSE IF StartsWith(u, kBEGIN) \/ StartsWith(u, kCOMMIT) \/ StartsWith(u, kROLLBACK)
        THEN /\ IsEffect(r)
             /\ "rows_affected" \notin DOMAIN r
        ELSE /\ IsEffect(r)
             /\ engine[c].rowcount >= 0 =>
                    ("rows_affected" \in DOMAIN r
                        /\ r.rows_affected = IntV(engine[c].rowcount))

NegativeCount(c) ==
    /\ Succeeded(c)
    /\ "rows_affected" \in DOMAIN result[c]
    /\ engine[c].rowcount < 0

\* C13 as stated: when the engine reports a negative count, rows_affected is
\* absent or none.
C13_Original ==
    \A c \in Calls :
        Succeeded(c) =>
            /\ VariantByKind(c)
            /\ engine[c].rowcount < 0 =>
                  \/ "rows_affected" \notin DOMAIN result[c]
                  \/ result[c].rows_affected = NullV

\* C13: every successful snowflake_query result is one variant, by statement
\* kind: a read gives data and columns and no rows_affected; BEGIN, COMMIT and
\* ROLLBACK give a message and no rows_affected; every other allowed kind
\* gives a message, no rows, and a rows_affected that is the engine's count
\* when the count is >= 0 and the text "N/A" when the count is negative.
C13_Variants ==
    \A c \in Calls :
        Succeeded(c) =>
            /\ VariantByKind(c)
            /\ LET u == Upper(Strip(sql[c]))
               IN  (~StartsWithAny(u, read_starts) /\ ~StartsWithAny(u, txn_starts)
                        /\ engine[c].rowcount < 0)
                     => /\ "rows_affected" \in DOMAIN result[c]
                        /\ result[c].rows_affected = StrV(<<"N", "/", "A">>)

\* an UPDATE succeeded and the engine gave no count
C13_Witness ==
    \E c \in Calls :
        /\ NegativeCount(c)
        /\ StartsWith(Upper(Strip(sql[c])), kUPDATE)
        /\ result[c].rows_affected = StrV(<<"N", "/", "A">>)

----------------------------------------------------------------------------
(* The order of the policy rules *)

Validated ==
    /\ fnArgs.f = "snowflake_query"
    /\ Len(fnOut) = 1
    /\ fnArgs.max_rows >= 1
    /\ fnArgs.max_rows <= MAX_ROWS_LIMIT

LeadsWithAllowed(u) == \E i \in 1..Len(allowed_starts) : StartsWith(u, allowed_starts[i])

HasDropTruncate(u) == Contains(u, kDROP) \/ Contains(u, kTRUNCATE)

LacksWhere(u) ==
    /\ StartsWith(u, kUPDATE) \/ StartsWith(u, kDELETE)
    /\ ~Contains(u, kWHERE)

\* C15: with a valid max_rows, the allow-list is applied first, the
\* DROP/TRUNCATE rule second, the WHERE rule third; the first rule that fails
\* gives the error, the three errors are non-empty and differ, and a text
\* that fails no rule is not denied.
C15_RuleOrder ==
    Validated =>
        LET u == Upper(Strip(fnArgs.sql))
            r == fnOut[1]
        IN  /\ IF ~LeadsWithAllowed(u) THEN r.returned /\ r.result = NotAllowedResult
               ELSE IF HasDropTruncate(u) THEN r.returned /\ r.result = DangerousResult
               ELSE IF LacksWhere(u) THEN r.returned /\ r.result = NoWhereResult
               ELSE ~r.returned
            /\ r.returned => (r.result.success = FALSE /\ r.result.error # "")
            /\ NotAllowedResult.error # DangerousResult.error
            /\ NotAllowedResult.error # NoWhereResult.error
            /\ DangerousResult.error # NoWhereResult.error

\* a leading DROP has been denied by the allow-list, or an UPDATE with
\* TRUNCATE and no WHERE by the DROP/TRUNCATE rule
C15_Witness ==
    /\ Validated
    /\ LET u == Upper(Strip(fnArgs.sql))
       IN  /\ StartsWith(u, kUPDATE)
           /\ Contains(u, kTRUNCATE)
           /\ ~Contains(u, kWHERE)
    /\ fnOut[1].result = DangerousResult

----------------------------------------------------------------------------
(* DROP and TRUNCATE across the two tools *)

\* C16: no text whose upper-cased form contains DROP or TRUNCATE is passed
\* to cursor.execute, by snowflake_query or by batch_insert.
C16_NoDropTruncateExecuted ==
    \A c \in Calls : \A k \in 1..Len(executed[c]) :
        /\ ~Contains(Upper(executed[c][k].text), kDROP)
        /\ ~Contains(Upper(executed[c][k].text), kTRUNCATE)

----------------------------------------------------------------------------
(* Calls in flight together *)

\* the text a call passes to cursor.execute when it runs alone
TextAlone(c) ==
    IF tool[c] = "snowflake_query"
    THEN Validate(sql[c], max_rows[c]).optimized_sql
    ELSE BuildInsert(batch[c].table, batch[c].columns, batch[c].values)

\* the result a call returns when it runs alone and the engine answers it
\* as it has answered this call
ResultAlone(c) ==
    IF tool[c] = "snowflake_query"
    THEN LET v == Validate(sql[c], max_rows[c])
             u == Upper(Strip(sql[c]))
         IN  IF v.returned THEN v.result
             ELSE IF engine[c].raised # "" THEN ExceptHandler(engine[c].raised)
             ELSE IF StartsWithAny(u, read_starts)
             THEN LET columns == engine[c].description
                      data == [i \in 1..Len(fetched[c]) |-> DictZip(columns, fetched[c][i])]
                  IN  RowsResult(optimize_columns(data, columns), columns)
             ELSE IF StartsWithAny(u, txn_starts) THEN TxnResult(u)
             ELSE EffectResult(u, engine[c].rowcount)
    ELSE IF Len(batch[c].values) = 0 THEN NoValuesResult
         ELSE IF engine[c].raised # "" THEN BatchExceptHandler(engine[c].raised)
         ELSE BatchResult(batch[c].values, engine[c].rowcount)

InFlight(c) == pc[c] \notin {"idle", "done"}

\* C14: however the steps of the calls interleave, each call that connects
\* has a connection no other call has; every text it executes is the text it
\* executes alone and runs on its own connection; the connection it closes
\* is its own, and a closed connection was closed by the call that acquired
\* it; and its result is the result it returns alone under the same engine
\* responses.
C14_NoSharedState ==
    /\ \A c \in Calls :
          /\ conn[c] # 0 => \A d \in Calls \ {c} : conn[d] # conn[c]
          /\ \A k \in 1..Len(executed[c]) :
                /\ executed[c][k].conn = conn[c]
                /\ executed[c][k].conn # 0
                /\ executed[c][k].text = TextAlone(c)
          /\ closed[c] # 0 => closed[c] = conn[c]
          /\ pc[c] = "done" => result[c] = ResultAlone(c)
    /\ \A i \in 1..Len(conns) :
          /\ \E c \in Calls : conn[c] = i
          /\ conns[i] = "closed" => \E c \in Calls : conn[c] = i /\ closed[c] = i

\* two calls were in flight together, the one that connected first finished
\* last, and both have executed and closed
C14_Witness ==
    \E c, d \in Calls :
        /\ c # d
        /\ pc[c] = "done" /\ pc[d] = "done"
        /\ tool[c] = "snowflake_query" /\ tool[d] = "batch_insert"
        /\ conn[c] # 0 /\ conn[d] # 0
        /\ conn[d] < conn[c]
        /\ closed[c] = conn[c] /\ closed[d] = conn[d]
        /\ Len(executed[c]) = 1 /\ Len(executed[d]) = 1
        /\ executed[c][1].text # executed[d][1].text

====
